---- MODULE Spec2Model ----
(***************************************************************************)
(* Model of SchedulingModel (src/model.py): the configuration stored by    *)
(* setup_model, the CP-SAT model that solve() builds, the solver's         *)
(* terminal status and value assignment, and the roster and statistics     *)
(* that solve() extracts and returns.                                      *)
(*                                                                         *)
(* Days are 0-based inside the model (all_days) and 1-based in the keys of *)
(* the preference and availability dictionaries, as in the source.         *)
(* A solver variable is an entry of the function solver.<name>; a          *)
(* dictionary is a function whose DOMAIN is its key set.                   *)
(***************************************************************************)
EXTENDS Integers, Sequences, FiniteSets, TLC

VARIABLES
    num_nurses,               \* self.num_nurses
    num_freelancers,          \* self.num_freelancers
    max_nurse_hours,          \* self.max_nurse_hours: nurse -> regular hours
    max_overhours,            \* self.max_overhours (shifts)
    num_days,                 \* self.num_days
    first_weekday,            \* weekday of day 1 of (self.year, self.month)
    min_free_weekends,        \* self.min_free_weekends
    max_consecutive_days,     \* self.max_consecutive_days
    nurse_preferences,        \* self.nurse_preferences: nurse -> dict
    freelancer_availability,  \* self.freelancer_availability: f_idx -> dict
    work_rest_ratio,          \* self.work_rest_ratio as <<numerator, denominator>>
    pc,                       \* "constructed" | "configured" | "returned" | "stored"
    status,                   \* status of the last solver.solve(model)
    solver,                   \* values held by the solver after the last solve
    ret,                      \* the tuple returned by the last solve()
    schedule_result           \* st.session_state.schedule_result of the view

config == <<num_nurses, num_freelancers, max_nurse_hours, max_overhours,
            num_days, first_weekday, min_free_weekends, max_consecutive_days,
            nurse_preferences, freelancer_availability, work_rest_ratio>>

vars == <<num_nurses, num_freelancers, max_nurse_hours, max_overhours,
          num_days, first_weekday, min_free_weekends, max_consecutive_days,
          nurse_preferences, freelancer_availability, work_rest_ratio,
          pc, status, solver, ret, schedule_result>>

-----------------------------------------------------------------------------
(* Bounds of the model.                                                    *)

MaxNurses == 2
MaxFreelancers == 2
MaxEmployees == 3
MaxDays == 3
MaxExtraDays == 1

-----------------------------------------------------------------------------
(* Program constants.                                                      *)

shift_duration == 8
window_size == 14
shift_names == <<"M", "P">>

\* Python's None is the empty tuple and a present value x is <<x>>
None == <<>>
Some(x) == <<x>>
NoStatus == "NoStatus"

OPTIMAL == "OPTIMAL"
FEASIBLE == "FEASIBLE"
INFEASIBLE == "INFEASIBLE"
MODEL_INVALID == "MODEL_INVALID"
UNKNOWN == "UNKNOWN"

-----------------------------------------------------------------------------
(* Ranges and small helpers.                                               *)

Range(n) == 0 .. (n - 1)

Min(a, b) == IF a <= b THEN a ELSE b

Max(a, b) == IF a >= b THEN a ELSE b

all_nurses == Range(num_nurses)

all_freelancers == Range(num_freelancers)

all_employees == Range(num_nurses + num_freelancers)

all_days == Range(num_days)

all_shifts == Range(Len(shift_names))

\* sum(vars[c] for c in cells) for 0/1 variables
Count(vals, cells) == Cardinality({c \in cells : vals[c] = 1})

RECURSIVE SumSeq(_)
SumSeq(s) == IF s = <<>> THEN 0 ELSE Head(s) + SumSeq(Tail(s))

\* the cells (e, d, s) of employee e on the days of a set
CellsOf(e, days) == {<<e, d, s>> : d \in days, s \in all_shifts}

DayKey(d, s) == <<d + 1, shift_names[s + 1]>>

-----------------------------------------------------------------------------
(* Calendar.                                                               *)

\* datetime(self.year, self.month, day).weekday(), Monday = 0
Weekday(day) == (first_weekday + day - 1) % 7

\* as if the Sunday were not required to lie inside the month
RECURSIVE WeekendPairsFrom_NoBound(_)
WeekendPairsFrom_NoBound(day) ==
    IF day > num_days THEN <<>>
    ELSE IF Weekday(day) = 5
         THEN <<(<<day - 1, day>>)>> \o WeekendPairsFrom_NoBound(day + 1)
         ELSE WeekendPairsFrom_NoBound(day + 1)

RECURSIVE WeekendPairsFrom(_)
WeekendPairsFrom(day) ==
    IF day > num_days THEN <<>>
    ELSE IF Weekday(day) = 5 /\ day + 1 <= num_days /\ Weekday(day + 1) = 6
         THEN <<(<<day - 1, day>>)>> \o WeekendPairsFrom(day + 1)
         ELSE WeekendPairsFrom(day + 1)

get_weekend_days == WeekendPairsFrom(1)

-----------------------------------------------------------------------------
(* The CP-SAT model built by solve(): one definition per family of         *)
(* constraints.  sh stands for the values of the shifts variables, oh for  *)
(* the values of the overhour_shifts variables.                            *)

\* as if the shift had to stay without an employee
AddExactlyOne_NoneAssigned(sh, d, s) ==
    Count(sh, {<<e, d, s>> : e \in all_employees}) = 0

\* as if add_at_most_one had been called here too
AddExactlyOne_AtMostOne(sh, d, s) ==
    Count(sh, {<<e, d, s>> : e \in all_employees}) <= 1

\* model.add_exactly_one(shifts[(e, d, s)] for e in all_employees)
AddExactlyOne(sh, d, s) ==
    Count(sh, {<<e, d, s>> : e \in all_employees}) = 1

\* as if the bound were the number of shifts of a day
AddAtMostOne_AllShifts(sh, e, d) ==
    Count(sh, {<<e, d, s>> : s \in all_shifts}) <= Len(shift_names)

\* model.add_at_most_one(shifts[(e, d, s)] for s in all_shifts)
AddAtMostOne(sh, e, d) ==
    Count(sh, {<<e, d, s>> : s \in all_shifts}) <= 1

\* as if the hours were not converted to shifts
MaxRegularShifts_Hours(n) == max_nurse_hours[n]

MaxRegularShifts(n) == max_nurse_hours[n] \div shift_duration

\* new_int_var(0, max_regular_shifts, ...)
RegularHoursDomain(n) == 0 .. MaxRegularShifts(n)

\* new_int_var(0, self.max_overhours, ...)
OvertimeHoursDomain == 0 .. max_overhours

\* the constraints on regular_hours[n] = reg and overtime_hours[n] = ot
OvertimeConstraints(sh, oh, n, reg, ot) ==
    /\ reg \in RegularHoursDomain(n)
    /\ ot \in OvertimeHoursDomain
    /\ reg + ot = Count(sh, CellsOf(n, all_days))
    /\ reg <= MaxRegularShifts(n)
    /\ ot <= max_overhours
    /\ ot = Count(oh, CellsOf(n, all_days))

\* model.add(overhour_shifts[(n, d, s)] <= shifts[(n, d, s)])
OverhourSubset(sh, oh, n, d, s) == oh[<<n, d, s>>] <= sh[<<n, d, s>>]

\* as if only a missing key made a slot unavailable
FreelancerUnavailable_KeyOnly(f_idx, d, s) ==
    DayKey(d, s) \notin DOMAIN freelancer_availability[f_idx]

FreelancerUnavailable(f_idx, d, s) ==
    \/ DayKey(d, s) \notin DOMAIN freelancer_availability[f_idx]
    \/ freelancer_availability[f_idx][DayKey(d, s)] = 0

\* freelancers can only work when available
AvailabilityConstraint(sh, f_idx, d, s) ==
    FreelancerUnavailable(f_idx, d, s) => sh[<<num_nurses + f_idx, d, s>>] = 0

IsHoliday(n, d, s) ==
    /\ DayKey(d, s) \in DOMAIN nurse_preferences[n]
    /\ nurse_preferences[n][DayKey(d, s)] = 2

\* as if the key were built from the 0-based day
HolidayConstraint_ZeroBased(sh, n, d, s) ==
    (/\ <<d, shift_names[s + 1]>> \in DOMAIN nurse_preferences[n]
     /\ nurse_preferences[n][<<d, shift_names[s + 1]>>] = 2)
        => sh[<<n, d, s>>] = 0

\* holiday constraints for nurses (Ferie = 2)
HolidayConstraint(sh, n, d, s) ==
    IsHoliday(n, d, s) => sh[<<n, d, s>>] = 0

\* as if the last window were left out
ConsecutiveStarts_Short == Range(num_days - max_consecutive_days - 1)

\* range(self.num_days - self.max_consecutive_days)
ConsecutiveStarts == Range(num_days - max_consecutive_days)

\* no more than max_consecutive_days shifts in max_consecutive_days + 1 days
ConsecutiveConstraint(sh, e, start_day) ==
    Count(sh, CellsOf(e, (start_day .. start_day + max_consecutive_days)
                            \cap all_days)) <= max_consecutive_days

\* as if the quotient were rounded up
max_work_days_in_window_RoundUp ==
    Min((window_size * work_rest_ratio[1]
            + work_rest_ratio[2] + work_rest_ratio[1] - 1)
            \div (work_rest_ratio[2] + work_rest_ratio[1]),
        window_size - 1)

\* min(int(window_size * r / (1 + r)), window_size - 1)
max_work_days_in_window ==
    Min((window_size * work_rest_ratio[1])
            \div (work_rest_ratio[2] + work_rest_ratio[1]),
        window_size - 1)

\* range(self.num_days - window_size + 1)
WindowStarts == Range(num_days - window_size + 1)

\* sliding 14-day window
WindowConstraint(sh, e, start_day) ==
    Count(sh, CellsOf(e, (start_day .. start_day + window_size - 1)
                            \cap all_days)) <= max_work_days_in_window

\* range(self.num_days - 1)
BackToBackDays == Range(num_days - 1)

\* as if the two shift indices were exchanged
BackToBackConstraint_Swapped(sh, e, d) ==
    sh[<<e, d, 0>>] + sh[<<e, d + 1, 1>>] <= 1

\* no afternoon shift followed by a morning shift
BackToBackConstraint(sh, e, d) ==
    sh[<<e, d, 1>>] + sh[<<e, d + 1, 0>>] <= 1

\* as if only the first of the two constraints had been added
WeekendFreeConstraint_UpperOnly(sh, n, pair, is_free) ==
    LET sat_shifts == Count(sh, CellsOf(n, {pair[1]}))
        sun_shifts == Count(sh, CellsOf(n, {pair[2]}))
    IN  sat_shifts + sun_shifts <= 2 * (1 - is_free)

\* as if only the second of the two constraints had been added
WeekendFreeConstraint_OneSided(sh, n, pair, is_free) ==
    LET sat_shifts == Count(sh, CellsOf(n, {pair[1]}))
        sun_shifts == Count(sh, CellsOf(n, {pair[2]}))
    IN  sat_shifts + sun_shifts >= 1 - is_free

\* the two linear constraints that tie is_free to the weekend's shifts
WeekendFreeConstraint(sh, n, pair, is_free) ==
    LET sat_shifts == Count(sh, CellsOf(n, {pair[1]}))
        sun_shifts == Count(sh, CellsOf(n, {pair[2]}))
    IN  /\ sat_shifts + sun_shifts <= 2 * (1 - is_free)
        /\ sat_shifts + sun_shifts >= 1 - is_free

\* as if the minimum were capped at the number of weekend pairs
MinFreeWeekendsConstraint_Capped(free_n) ==
    SumSeq(free_n) >= Min(min_free_weekends, Len(free_n))

\* as if the constraint were added also for an empty list of weekends
MinFreeWeekendsConstraint_Always(free_n) ==
    SumSeq(free_n) >= min_free_weekends

\* if weekend_is_free[n]: sum(weekend_is_free[n]) >= self.min_free_weekends
MinFreeWeekendsConstraint(free_n) ==
    (free_n # <<>>) => SumSeq(free_n) >= min_free_weekends

\* the pairs f1 < f2 of freelancers, when there is more than one freelancer
FreelancerPairs ==
    IF num_freelancers > 1
    THEN {p \in all_freelancers \X all_freelancers : p[1] < p[2]}
    ELSE {}

\* sum(shifts[(f, d, s)] for d in all_days for s in all_shifts)
freelancer_shifts(sh, f_idx) == Count(sh, CellsOf(num_nurses + f_idx, all_days))

\* model.new_int_var(-self.num_days, self.num_days, ...)
ShiftDiffDomain == (0 - num_days) .. num_days

\* as if the square had the upper bound of the difference
ShiftDiffSqDomain_Linear == 0 .. num_days

\* model.new_int_var(0, (self.num_days)**2, ...)
ShiftDiffSqDomain == 0 .. (num_days * num_days)

\* diff == freelancer_shifts[f1] - freelancer_shifts[f2] and
\* add_multiplication_equality(diff_sq, [diff, diff])
BalanceConstraint(sh, diff, diff_sq, p) ==
    /\ diff \in ShiftDiffDomain
    /\ diff_sq \in ShiftDiffSqDomain
    /\ diff = freelancer_shifts(sh, p[1]) - freelancer_shifts(sh, p[2])
    /\ diff_sq = diff * diff

\* the variables and constraints that solve() adds for the objective alone
ObjectiveConstraints(v) ==
    \A p \in FreelancerPairs :
        BalanceConstraint(v.shifts, v.shift_diff[p], v.shift_diff_sq[p], p)

\* every constraint of the built model, over a full assignment v
ModelConstraints(v) ==
    /\ \A d \in all_days : \A s \in all_shifts : AddExactlyOne(v.shifts, d, s)
    /\ \A e \in all_employees : \A d \in all_days : AddAtMostOne(v.shifts, e, d)
    /\ \A n \in all_nurses :
          /\ OvertimeConstraints(v.shifts, v.overhour_shifts, n,
                                 v.regular_hours[n], v.overtime_hours[n])
          /\ \A d \in all_days : \A s \in all_shifts :
                OverhourSubset(v.shifts, v.overhour_shifts, n, d, s)
    /\ \A f_idx \in all_freelancers : \A d \in all_days : \A s \in all_shifts :
          AvailabilityConstraint(v.shifts, f_idx, d, s)
    /\ \A n \in all_nurses : \A d \in all_days : \A s \in all_shifts :
          HolidayConstraint(v.shifts, n, d, s)
    /\ \A e \in all_employees : \A start_day \in ConsecutiveStarts :
          ConsecutiveConstraint(v.shifts, e, start_day)
    /\ \A e \in all_employees : \A start_day \in WindowStarts :
          WindowConstraint(v.shifts, e, start_day)
    /\ \A e \in all_employees : \A d \in BackToBackDays :
          BackToBackConstraint(v.shifts, e, d)
    /\ \A n \in all_nurses :
          /\ \A w \in 1 .. Len(get_weekend_days) :
                WeekendFreeConstraint(v.shifts, n, get_weekend_days[w],
                                      v.weekend_is_free[n][w])
          /\ MinFreeWeekendsConstraint(v.weekend_is_free[n])

\* CP-SAT rejects a model that declares a variable with an empty domain
ModelValid ==
    \A n \in all_nurses : MaxRegularShifts(n) >= 0 /\ max_overhours >= 0

-----------------------------------------------------------------------------
(* solver.solve(model): the solver returns any assignment that satisfies   *)
(* every constraint of the model.  The assignments are enumerated day by   *)
(* day; a partial assignment is dropped as soon as it violates a           *)
(* constraint whose variables are all assigned.                            *)

\* the constraints on the shifts variables of day k alone
ShiftConstraintsOfDay(sh, k) ==
    /\ \A s \in all_shifts : AddExactlyOne(sh, k, s)
    /\ \A e \in all_employees : AddAtMostOne(sh, e, k)
    /\ \A f_idx \in all_freelancers : \A s \in all_shifts :
          AvailabilityConstraint(sh, f_idx, k, s)
    /\ \A n \in all_nurses : \A s \in all_shifts : HolidayConstraint(sh, n, k, s)

\* the constraints on shifts over several days whose last day is k
ShiftConstraintsEndingAt(sh, k) ==
    \A e \in all_employees :
        /\ (k - max_consecutive_days) \in ConsecutiveStarts
              => ConsecutiveConstraint(sh, e, k - max_consecutive_days)
        /\ (k - window_size + 1) \in WindowStarts
              => WindowConstraint(sh, e, k - window_size + 1)
        /\ (k - 1) \in BackToBackDays => BackToBackConstraint(sh, e, k - 1)

\* regular_hours[n] and overtime_hours[n] still have values in their domains
\* that fit the shifts and overtime marks of the days 0 .. k
HoursReachable(sh, oh, n, k) ==
    /\ \E ot \in OvertimeHoursDomain : Count(oh, CellsOf(n, 0 .. k)) <= ot
    /\ \E reg \in RegularHoursDomain(n) : \E ot \in OvertimeHoursDomain :
          Count(sh, CellsOf(n, 0 .. k)) <= reg + ot

\* the values of the variables of day k that keep the assignment consistent
DayExtensions(sh, oh, k) ==
    LET shiftCells == {<<e, k, s>> : e \in all_employees, s \in all_shifts}
        overCells == {<<n, k, s>> : n \in all_nurses, s \in all_shifts}
        dxs == {dx \in [shiftCells -> {0, 1}] : ShiftConstraintsOfDay(dx, k)}
        shs == {x \in {sh @@ dx : dx \in dxs} : ShiftConstraintsEndingAt(x, k)}
        dys(x) == {dy \in [overCells -> {0, 1}] :
                      \A n \in all_nurses : \A s \in all_shifts :
                          OverhourSubset(x, dy, n, k, s)}
    IN  UNION {{a \in {<<x, oh @@ dy>> : dy \in dys(x)} :
                  \A n \in all_nurses : HoursReachable(a[1], a[2], n, k)} :
               x \in shs}

RECURSIVE AssignFrom(_, _, _)
AssignFrom(sh, oh, k) ==
    IF k >= num_days THEN {<<sh, oh>>}
    ELSE UNION {AssignFrom(a[1], a[2], k + 1) : a \in DayExtensions(sh, oh, k)}

\* the values of regular_hours[n] and overtime_hours[n] that fit sh and oh
HoursValues(sh, oh, n) ==
    {ro \in RegularHoursDomain(n) \X OvertimeHoursDomain :
        OvertimeConstraints(sh, oh, n, ro[1], ro[2])}

\* the values <<diff, diff_sq>> of the variables of the pair p that fit sh
BalanceValues(sh, p) ==
    {dq \in ShiftDiffDomain \X ShiftDiffSqDomain :
        BalanceConstraint(sh, dq[1], dq[2], p)}

\* the values of the weekend_is_free[n] variables that fit sh
WeekendValues(sh, n) ==
    {w \in [1 .. Len(get_weekend_days) -> {0, 1}] :
        /\ \A i \in 1 .. Len(get_weekend_days) :
              WeekendFreeConstraint(sh, n, get_weekend_days[i], w[i])
        /\ MinFreeWeekendsConstraint(w)}

\* the values of the variables of the hard constraints that extend sh and oh
HardCompletions(sh, oh) ==
    LET hv == [n \in all_nurses |-> HoursValues(sh, oh, n)]
        wv == [n \in all_nurses |-> WeekendValues(sh, n)]
    IN  {[shifts |-> sh,
          overhour_shifts |-> oh,
          regular_hours |-> [n \in all_nurses |-> h[n][1]],
          overtime_hours |-> [n \in all_nurses |-> h[n][2]],
          weekend_is_free |-> w] :
            h \in {g \in [all_nurses -> UNION {hv[n] : n \in all_nurses}] :
                      \A n \in all_nurses : g[n] \in hv[n]},
            w \in {g \in [all_nurses -> UNION {wv[n] : n \in all_nurses}] :
                      \A n \in all_nurses : g[n] \in wv[n]}}

\* the values of all variables that extend the values x of the variables of
\* the hard constraints
Completions(x) ==
    LET bv == [p \in FreelancerPairs |-> BalanceValues(x.shifts, p)]
    IN  {[shifts |-> x.shifts,
          overhour_shifts |-> x.overhour_shifts,
          regular_hours |-> x.regular_hours,
          overtime_hours |-> x.overtime_hours,
          weekend_is_free |-> x.weekend_is_free,
          shift_diff |-> [p \in FreelancerPairs |-> b[p][1]],
          shift_diff_sq |-> [p \in FreelancerPairs |-> b[p][2]]] :
            b \in {g \in [FreelancerPairs ->
                              UNION {bv[p] : p \in FreelancerPairs}] :
                      \A p \in FreelancerPairs : g[p] \in bv[p]}}

\* all assignments of the variables of the hard constraints that satisfy them
HardSolutions ==
    {x \in UNION {HardCompletions(a[1], a[2]) :
                     a \in AssignFrom(<<>>, <<>>, 0)} :
        ModelConstraints(x)}

\* all assignments of the model's variables that satisfy its constraints
Solutions ==
    {v \in UNION {Completions(x) : x \in HardSolutions} :
        ModelConstraints(v) /\ ObjectiveConstraints(v)}

-----------------------------------------------------------------------------
(* Extraction of the roster and the statistics from the solver's values v  *)
(* (the branch taken for OPTIMAL and FEASIBLE).                            *)

RECURSIVE SumFn(_, _)
SumFn(f, S) ==
    IF S = {} THEN 0
    ELSE LET c == CHOOSE c \in S : TRUE IN f[c] + SumFn(f, S \ {c})

\* round(a / b * 100, 1) in tenths of a percent, for a >= 0 and b > 0
RoundPercent(a, b) ==
    LET q == (1000 * a) \div b
        r == (1000 * a) % b
    IN  IF 2 * r < b THEN q
        ELSE IF 2 * r > b THEN q + 1
        ELSE IF q % 2 = 0 THEN q ELSE q + 1

NurseColumn(n) == <<"Infermiere", n + 1>>

FreelancerColumn(f_idx) == <<"Libero Professionista", f_idx + 1>>

HolidayKey(n, key) ==
    key \in DOMAIN nurse_preferences[n] /\ nurse_preferences[n][key] = 2

\* as if only a holiday on the morning made the day a holiday
is_holiday_MorningOnly(n, d) == HolidayKey(n, <<d + 1, "M">>)

is_holiday(n, d) ==
    HolidayKey(n, <<d + 1, "M">>) \/ HolidayKey(n, <<d + 1, "P">>)

\* as if the overtime suffix were written without the space
NurseLabel_NoSpace(v, n, d) ==
    IF v.shifts[<<n, d, 0>>] = 1
    THEN IF v.overhour_shifts[<<n, d, 0>>] = 1 THEN "M(S)" ELSE "M"
    ELSE IF v.shifts[<<n, d, 1>>] = 1
    THEN IF v.overhour_shifts[<<n, d, 1>>] = 1 THEN "P(S)" ELSE "P"
    ELSE IF is_holiday(n, d) THEN "F" ELSE "R"

\* the label of nurse n on day d
NurseLabel(v, n, d) ==
    IF v.shifts[<<n, d, 0>>] = 1
    THEN IF v.overhour_shifts[<<n, d, 0>>] = 1 THEN "M (S)" ELSE "M"
    ELSE IF v.shifts[<<n, d, 1>>] = 1
    THEN IF v.overhour_shifts[<<n, d, 1>>] = 1 THEN "P (S)" ELSE "P"
    ELSE IF is_holiday(n, d) THEN "F" ELSE "R"

\* the label of freelancer f_idx on day d
FreelancerLabel(v, f_idx, d) ==
    IF v.shifts[<<num_nurses + f_idx, d, 0>>] = 1 THEN "M"
    ELSE IF v.shifts[<<num_nurses + f_idx, d, 1>>] = 1 THEN "P"
    ELSE "R"

\* what day d adds to hours_worked[n]
DayHours(v, n, d) ==
    IF v.shifts[<<n, d, 0>>] = 1 THEN shift_duration
    ELSE IF v.shifts[<<n, d, 1>>] = 1 THEN shift_duration
    ELSE 0

\* as if the overtime of an afternoon shift were not added
DayOverhours_MorningOnly(v, n, d) ==
    IF v.shifts[<<n, d, 0>>] = 1
    THEN IF v.overhour_shifts[<<n, d, 0>>] = 1 THEN shift_duration ELSE 0
    ELSE 0

\* what day d adds to overhours_worked[n]
DayOverhours(v, n, d) ==
    IF v.shifts[<<n, d, 0>>] = 1
    THEN IF v.overhour_shifts[<<n, d, 0>>] = 1 THEN shift_duration ELSE 0
    ELSE IF v.shifts[<<n, d, 1>>] = 1
    THEN IF v.overhour_shifts[<<n, d, 1>>] = 1 THEN shift_duration ELSE 0
    ELSE 0

hours_worked_of(v, n) ==
    SumFn([d \in all_days |-> DayHours(v, n, d)], all_days)

overhours_worked_of(v, n) ==
    SumFn([d \in all_days |-> DayOverhours(v, n, d)], all_days)

regular_hours_worked_of(v, n) ==
    SumFn([d \in all_days |-> DayHours(v, n, d) - DayOverhours(v, n, d)],
          all_days)

ScheduleRow(v, d) ==
    [Data |-> d + 1,
     Giorno |-> Weekday(d + 1),
     cells |-> [c \in {NurseColumn(n) : n \in all_nurses}
                        \cup {FreelancerColumn(f) : f \in all_freelancers} |->
                   IF c[1] = "Infermiere"
                   THEN NurseLabel(v, c[2] - 1, d)
                   ELSE FreelancerLabel(v, c[2] - 1, d)]]

DayFree(v, n, d) == \A s \in all_shifts : v.shifts[<<n, d, s>>] # 1

free_weekends_of(v, n) ==
    Cardinality({w \in 1 .. Len(get_weekend_days) :
        /\ DayFree(v, n, get_weekend_days[w][1])
        /\ DayFree(v, n, get_weekend_days[w][2])})

\* as if a day counted only when both of its shifts are holidays
holiday_days_of_BothShifts(n) ==
    Cardinality({d \in all_days :
        HolidayKey(n, <<d + 1, "M">>) /\ HolidayKey(n, <<d + 1, "P">>)})

holiday_days_of(n) ==
    Cardinality({d \in all_days :
        HolidayKey(n, <<d + 1, "M">>) \/ HolidayKey(n, <<d + 1, "P">>)})

\* the (day, shift) cells of nurse n that carry a preference 1 or -1
PreferenceCells(n) ==
    {c \in all_days \X all_shifts :
        /\ DayKey(c[1], c[2]) \in DOMAIN nurse_preferences[n]
        /\ nurse_preferences[n][DayKey(c[1], c[2])] \in {1, -1}}

SatisfiedCells(v, n) ==
    {c \in PreferenceCells(n) :
        LET pref_value == nurse_preferences[n][DayKey(c[1], c[2])]
            assigned == v.shifts[<<n, c[1], c[2]>>] = 1
        IN  (pref_value = 1 /\ assigned) \/ (pref_value = -1 /\ ~assigned)}

\* preference_satisfaction[n]["percentage"], in tenths of a percent
pref_percentage_of(v, n) ==
    IF Cardinality(PreferenceCells(n)) > 0
    THEN RoundPercent(Cardinality(SatisfiedCells(v, n)),
                      Cardinality(PreferenceCells(n)))
    ELSE 1000

freelancer_shifts_count(v, f_idx) ==
    Count(v.shifts, CellsOf(num_nurses + f_idx, all_days))

available_slots(f_idx) ==
    IF f_idx \in DOMAIN freelancer_availability
    THEN Cardinality(DOMAIN freelancer_availability[f_idx])
    ELSE 0

\* hours_worked['freelancer_<f_idx>_availability_usage'], in tenths of a percent
availability_usage_of(v, f_idx) ==
    IF available_slots(f_idx) > 0
    THEN RoundPercent(freelancer_shifts_count(v, f_idx), available_slots(f_idx))
    ELSE 0

\* unit costs in halves: nurse_regular_cost = 1, nurse_overhours_cost = 2,
\* freelancer_cost = 1.5
nurse_regular_cost2 == 2
nurse_overhours_cost2 == 4
freelancer_cost2 == 3

\* the entries of the hours_worked dictionary; costs are in halves
HoursWorked(v) ==
    LET regular_cost2 ==
            SumFn([n \in all_nurses |->
                      (regular_hours_worked_of(v, n) \div shift_duration)
                          * nurse_regular_cost2], all_nurses)
        overtime_cost2 ==
            SumFn([n \in all_nurses |->
                      (overhours_worked_of(v, n) \div shift_duration)
                          * nurse_overhours_cost2], all_nurses)
        contractor_cost2 ==
            SumFn([f \in all_freelancers |-> freelancer_shifts_count(v, f)],
                  all_freelancers) * freelancer_cost2
    IN  [hours |-> [n \in all_nurses |-> hours_worked_of(v, n)],
         pref_percentage |-> [n \in all_nurses |-> pref_percentage_of(v, n)],
         freelancer_shifts |->
             [f \in all_freelancers |-> freelancer_shifts_count(v, f)],
         freelancer_hours |->
             [f \in all_freelancers |->
                 freelancer_shifts_count(v, f) * shift_duration],
         freelancer_availability_usage |->
             [f \in all_freelancers |-> availability_usage_of(v, f)],
         regular_cost |-> regular_cost2,
         overtime_cost |-> overtime_cost2,
         freelancer_cost |-> contractor_cost2,
         total_cost |-> regular_cost2 + overtime_cost2 + contractor_cost2,
         regular |-> [n \in all_nurses |-> regular_hours_worked_of(v, n)],
         overtime |-> [n \in all_nurses |-> overhours_worked_of(v, n)]]

\* return True, schedule_df, hours_worked, free_weekends, holiday_days
SuccessReturn(v) ==
    [success |-> TRUE,
     schedule_df |-> Some([d \in all_days |-> ScheduleRow(v, d)]),
     hours_worked |-> Some(HoursWorked(v)),
     free_weekends |-> Some([n \in all_nurses |-> free_weekends_of(v, n)]),
     holiday_days |-> Some([n \in all_nurses |-> holiday_days_of(n)])]

\* return False, None, None, None, None
FailureReturn ==
    [success |-> FALSE,
     schedule_df |-> None,
     hours_worked |-> None,
     free_weekends |-> None,
     holiday_days |-> None]

-----------------------------------------------------------------------------
(* The objective that solve() maximizes.  Its coefficients are quotients;  *)
(* the weighted sum is kept exact by multiplying it by                     *)
(* 2 * max_nurse_pref * max_free_weekends * balance_divisor.               *)

\* max(sum(len(self.nurse_preferences.get(n, {})) for n in all_nurses), 1)
max_nurse_pref ==
    Max(SumFn([n \in all_nurses |->
                  IF n \in DOMAIN nurse_preferences
                  THEN Cardinality(DOMAIN nurse_preferences[n])
                  ELSE 0], all_nurses), 1)

\* max(len(weekend_pairs) * self.num_nurses, 1)
max_free_weekends == Max(Len(get_weekend_days) * num_nurses, 1)

\* as if the greatest difference of a pair were not squared
max_possible_squared_diff_sum_Linear ==
    ((num_freelancers * (num_freelancers - 1)) \div 2) * num_days

\* (num_freelancers * (num_freelancers - 1) / 2) * num_days ** 2
max_possible_squared_diff_sum ==
    ((num_freelancers * (num_freelancers - 1)) \div 2) * num_days * num_days

\* max(1, max_possible_squared_diff_sum)
balance_divisor == Max(1, max_possible_squared_diff_sum)

\* nurse_pref_scale = 3000.0 / max_nurse_pref
preference_weight == 3000

\* every cost term is multiplied by 35
cost_weight == 35

\* free_weekends_scale = 2500.0 / max_free_weekends
free_weekends_weight == 2500

\* freelancer_balance_scale = 1000.0 / max(1, max_possible_squared_diff_sum)
balance_weight == 1000

\* the sum of shifts[(n, d, s)] over the wishes minus that over the refusals
PreferenceTerm(v) ==
    SumFn([n \in all_nurses |->
              SumFn([c \in PreferenceCells(n) |->
                        nurse_preferences[n][DayKey(c[1], c[2])]
                            * v.shifts[<<n, c[1], c[2]>>]],
                    PreferenceCells(n))], all_nurses)

\* the cost of the assignment, in halves
CostTerm2(v) ==
    SumFn([n \in all_nurses |->
              v.regular_hours[n] * nurse_regular_cost2
                  + v.overtime_hours[n] * nurse_overhours_cost2], all_nurses)
        + SumFn([f \in all_freelancers |->
                    freelancer_shifts(v.shifts, f) * freelancer_cost2],
                all_freelancers)

\* the number of weekend_is_free variables that are 1
FreeWeekendTerm(v) ==
    SumFn([n \in all_nurses |-> SumSeq(v.weekend_is_free[n])], all_nurses)

\* the sum of the squared differences of the freelancers' shift counts
BalanceTerm(v) == SumFn(v.shift_diff_sq, FreelancerPairs)

\* the weighted sum with the weights wa, wb, wc, wd of the four terms
WeightedSum(v, wa, wb, wc, wd) ==
    2 * max_free_weekends * balance_divisor * wa * PreferenceTerm(v)
        - max_nurse_pref * max_free_weekends * balance_divisor * wb
              * CostTerm2(v)
        + 2 * max_nurse_pref * balance_divisor * wc * FreeWeekendTerm(v)
        - 2 * max_nurse_pref * max_free_weekends * wd * BalanceTerm(v)

\* model.maximize(sum(objective_terms))
Objective(v) ==
    WeightedSum(v, preference_weight, cost_weight, free_weekends_weight,
                balance_weight)

\* the greatest value of the objective over the assignments sols
MaxObjective(sols) ==
    LET values == {Objective(w) : w \in sols}
    IN  CHOOSE m \in values : \A x \in values : x <= m

-----------------------------------------------------------------------------
(* Inputs of setup_model.                                                  *)

\* <<num_nurses, num_freelancers>>
TeamChoices ==
    {t \in (1 .. MaxNurses) \X (0 .. MaxFreelancers) :
        t[1] + t[2] <= MaxEmployees}

DayCounts == 2 .. MaxDays

\* Thursday or Saturday: a horizon of MaxDays days from Thursday ends on a
\* Saturday, one from Saturday starts with a weekend pair
FirstWeekdays == {3, 5}

\* max_nurse_hours: 12, 20, 28, ... hours (1, 2, 3, ... regular shifts), or
\* 24 hours for everybody
HoursChoices(nn) ==
    {[n \in Range(nn) |-> 12 + 8 * n], [n \in Range(nn) |-> 24]}

\* <<min_free_weekends, max_consecutive_days, max_overhours>>
RuleChoices ==
    {<<0, 5, 0>>, <<1, 5, 1>>, <<2, 5, 0>>, <<0, 2, 1>>, <<1, 2, 0>>,
     <<0, 5, -1>>}

RatioChoices == {<<3, 1>>}

\* a wish for the afternoon of day 1, a refusal for the morning of day 2 and
\* holidays on the morning of day 1 and the afternoon of day 2
PreferencesA ==
    (<<1, "P">> :> 1) @@ (<<2, "M">> :> -1) @@ (<<2, "P">> :> 2)
        @@ (<<1, "M">> :> 2)

\* a holiday on the morning of day 1 only
PreferencesB == (<<1, "M">> :> 2)

\* nobody has preferences, or nurse 0 has PreferencesA and every other nurse
\* PreferencesB
PreferenceChoices(nn) ==
    {[n \in Range(nn) |-> <<>>],
     [n \in Range(nn) |-> IF n = 0 THEN PreferencesA ELSE PreferencesB]}

\* available on both shifts of the days 1 .. days
AvailableAlways(days) == [k \in (1 .. days) \X {"M", "P"} |-> 1]

\* a dictionary with a slot mapped to 0 and days without an entry
AvailableSometimes ==
    (<<1, "M">> :> 1) @@ (<<1, "P">> :> 0) @@ (<<2, "P">> :> 1)
        @@ (<<3, "M">> :> 1)

\* every freelancer is always available, or freelancer 0 is sometimes
\* available and every other freelancer always
AvailabilityChoices(nf, days) ==
    {[f \in Range(nf) |-> AvailableAlways(days)],
     [f \in Range(nf) |->
         IF f = 0 THEN AvailableSometimes ELSE AvailableAlways(days)]}

\* calendar.monthrange(year, month)[1]
MonthDayCounts == 28 .. 31

\* datetime(year, month, 1).weekday()
MonthFirstWeekdays == 0 .. 6

\* <<num_nurses, num_freelancers>> with fewer than three employees
SmallTeamChoices == {t \in (0 .. 2) \X (0 .. 2) : t[1] + t[2] < 3}

\* <<min_free_weekends, max_consecutive_days, max_overhours>>: the least and
\* the greatest min_free_weekends and every max_consecutive_days of the form
MonthRuleChoices == ({0, 5} \X (1 .. 6) \X {0}) \cup {<<0, 6, -1>>}

MonthRatioChoices == {<<3, 1>>}

\* a shift for every day of the longest month
MonthHoursChoices(nn) == {[n \in Range(nn) |-> 160], [n \in Range(nn) |-> 248]}

\* a rota of three days for two nurses and a freelancer: nurse 0 can work the
\* morning of the days 1, 4, 7, ... and the afternoon of the days 2, 5, 8, ...,
\* nurse 1 the afternoon of the days 1, 4, 7, ... and the morning of the days
\* 3, 6, 9, ...; they are on holiday for every other shift
RotaPreferences(days) ==
    [n \in Range(2) |->
        [k \in {c \in (1 .. days) \X {"M", "P"} :
                   IF n = 0
                   THEN ~(c[1] % 3 = 1 /\ c[2] = "M")
                            /\ ~(c[1] % 3 = 2 /\ c[2] = "P")
                   ELSE ~(c[1] % 3 = 1 /\ c[2] = "P")
                            /\ ~(c[1] % 3 = 0 /\ c[2] = "M")} |-> 2]]

\* the freelancer of the rota is available in the morning of the days
\* 2, 5, 8, ... and in the afternoon of the days 3, 6, 9, ...
RotaAvailability(days) ==
    [f \in Range(1) |->
        [k \in {c \in (1 .. days) \X {"M", "P"} :
                   \/ c[1] % 3 = 2 /\ c[2] = "M"
                   \/ c[1] % 3 = 0 /\ c[2] = "P"} |-> 1]]

\* <<num_nurses, num_freelancers>> of the teams on which solve() is called
\* more than once
RepeatTeamChoices == {<<1, 1>>, <<2, 0>>}

\* <<min_free_weekends, max_consecutive_days, max_overhours>>
RepeatRuleChoices == {<<0, 5, 1>>, <<2, 5, 0>>, <<0, 5, -1>>}

LongDayCounts == window_size .. (window_size + MaxExtraDays)

LongRuleChoices == {<<0, 6, 0>>, <<0, 6, -1>>}

\* work-to-rest ratios 1, 2.5, 3 and 5
LongRatioChoices == {<<1, 1>>, <<5, 2>>, <<3, 1>>, <<5, 1>>}

LongPreferences(days) ==
    [n \in Range(2) |->
        [k \in {d \in 1 .. days : d % 4 = (2 + 2 * n) % 4} \X {"M", "P"} |-> 2]]

LongAvailability(days) ==
    [f \in Range(1) |->
        [k \in {d \in 1 .. days : d % 2 = 0 \/ d % 6 = 1} \X {"M"} |-> 1]]

-----------------------------------------------------------------------------
(* State after SchedulingModel().                                          *)

\* no call of solve() has returned yet
NoReturn ==
    [success |-> FALSE,
     schedule_df |-> None,
     hours_worked |-> None,
     free_weekends |-> None,
     holiday_days |-> None]

Init ==
    /\ num_nurses = 0
    /\ num_freelancers = 0
    /\ max_nurse_hours = <<>>
    /\ max_overhours = 0
    /\ num_days = 0
    /\ first_weekday \in FirstWeekdays
    /\ min_free_weekends = 1
    /\ max_consecutive_days = 5
    /\ nurse_preferences = <<>>
    /\ freelancer_availability = <<>>
    /\ work_rest_ratio = <<3, 1>>
    /\ pc = "constructed"
    /\ status = NoStatus
    /\ solver = None
    /\ ret = NoReturn
    /\ schedule_result = None

-----------------------------------------------------------------------------
(* Operations.                                                             *)

\* setup_model(...): stores its arguments; num_days is the month's length
Setup(nn, nf, hours, mfw, mcd, prefs, avail, mo, ratio, days, wd) ==
    /\ num_nurses' = nn
    /\ num_freelancers' = nf
    /\ max_nurse_hours' = hours
    /\ min_free_weekends' = mfw
    /\ max_consecutive_days' = mcd
    /\ nurse_preferences' = prefs
    /\ freelancer_availability' = avail
    /\ max_overhours' = mo
    /\ work_rest_ratio' = ratio
    /\ num_days' = days
    /\ first_weekday' = wd
    /\ pc' = "configured"
    /\ status' = NoStatus
    /\ solver' = None
    /\ ret' = NoReturn
    /\ UNCHANGED schedule_result

SetupModel ==
    /\ pc = "constructed"
    /\ \E team \in TeamChoices, days \in DayCounts :
       \E hours \in HoursChoices(team[1]),
          prefs \in PreferenceChoices(team[1]),
          avail \in AvailabilityChoices(team[2], days) :
       \E rule \in RuleChoices, ratio \in RatioChoices, wd \in FirstWeekdays :
           Setup(team[1], team[2], hours, rule[1], rule[2], prefs, avail, rule[3],
                 ratio, days, wd)

\* setup_model(...) for a horizon that holds a 14-day window: two nurses who
\* are on holiday every fourth day in turn, and one freelancer who is
\* available in the morning of the even days and of the days 1, 7, 13, ...
SetupModelLong ==
    /\ pc = "constructed"
    /\ \E days \in LongDayCounts, rule \in LongRuleChoices,
          ratio \in LongRatioChoices :
           Setup(2, 1, [n \in Range(2) |-> 160], rule[1], rule[2],
                 LongPreferences(days), LongAvailability(days), rule[3],
                 ratio, days, 0)

\* setup_model(...) for a month: a team of fewer than three employees without
\* preferences whose freelancers are always available, or the rota of two
\* nurses and a freelancer
SetupModelMonth ==
    /\ pc = "constructed"
    /\ \E days \in MonthDayCounts, wd \in MonthFirstWeekdays,
          rule \in MonthRuleChoices, ratio \in MonthRatioChoices :
          \/ \E team \in SmallTeamChoices :
             \E hours \in MonthHoursChoices(team[1]) :
                Setup(team[1], team[2], hours, rule[1], rule[2],
                      [n \in Range(team[1]) |-> <<>>],
                      [f \in Range(team[2]) |-> AvailableAlways(days)],
                      rule[3], ratio, days, wd)
          \/ Setup(2, 1, [n \in Range(2) |-> 248], rule[1], rule[2],
                   RotaPreferences(days), RotaAvailability(days), rule[3],
                   ratio, days, wd)

\* setup_model(...) for a horizon of two days
SetupModelRepeat ==
    /\ pc = "constructed"
    /\ \E team \in RepeatTeamChoices, rule \in RepeatRuleChoices,
          wd \in FirstWeekdays :
       \E hours \in HoursChoices(team[1]),
          prefs \in PreferenceChoices(team[1]),
          avail \in AvailabilityChoices(team[2], 2) :
           Setup(team[1], team[2], hours, rule[1], rule[2], prefs, avail,
                 rule[3], <<3, 1>>, 2, wd)

\* the caller, who still holds the values that the last call returned, calls
\* solve() on the same object again
CallAgain ==
    /\ pc = "returned"
    /\ pc' = "configured"
    /\ UNCHANGED <<config, status, solver, ret, schedule_result>>

\* teams without a nurse
NoNurseTeamChoices == {<<0, 1>>, <<0, 2>>}

\* a dictionary with the values 3 and 0, which are no preference
PreferencesUnknown == (<<1, "M">> :> 3) @@ (<<2, "P">> :> 0)

\* setup_model(...) with a configuration that has no nurse, or in which the
\* preferences of nurse 0 hold values other than 1, -1 and 2
SetupModelInvalidConfig ==
    /\ pc = "constructed"
    /\ \E days \in DayCounts, rule \in RuleChoices, ratio \in RatioChoices,
          wd \in FirstWeekdays :
          \/ \E team \in NoNurseTeamChoices :
             \E avail \in AvailabilityChoices(team[2], days) :
                Setup(team[1], team[2], <<>>, rule[1], rule[2], <<>>, avail,
                      rule[3], ratio, days, wd)
          \/ \E team \in TeamChoices :
             \E hours \in HoursChoices(team[1]),
                avail \in AvailabilityChoices(team[2], days) :
                Setup(team[1], team[2], hours, rule[1], rule[2],
                      [n \in Range(team[1]) |->
                          IF n = 0 THEN PreferencesUnknown ELSE <<>>],
                      avail, rule[3], ratio, days, wd)

\* as if only OPTIMAL led to the extraction
SolveSuccess_OptimalOnly ==
    /\ pc = "configured"
    /\ ModelValid
    /\ \E v \in Solutions :
          /\ solver' = Some(v)
          /\ \/ status' = OPTIMAL /\ ret' = SuccessReturn(v)
             \/ status' = FEASIBLE /\ ret' = FailureReturn
    /\ pc' = "returned"
    /\ UNCHANGED <<config, schedule_result>>

\* solve(): the solver finds an assignment, which it reports as OPTIMAL when
\* no assignment has a greater objective and as FEASIBLE when the time limit
\* passes before that is proved; the roster is extracted
SolveSuccess ==
    /\ pc = "configured"
    /\ ModelValid
    /\ \E sols \in {Solutions} :
       \E best \in {MaxObjective(t) : t \in {sols} \ {{}}} :
       \E v \in sols :
          /\ solver' = Some(v)
          /\ ret' = SuccessReturn(v)
          /\ \/ status' = FEASIBLE
             \/ status' = OPTIMAL /\ Objective(v) = best
    /\ pc' = "returned"
    /\ UNCHANGED <<config, schedule_result>>

\* solve(): the solver proves that the model has no solution
SolveInfeasible ==
    /\ pc = "configured"
    /\ ModelValid
    /\ Solutions = {}
    /\ status' = INFEASIBLE
    /\ solver' = None
    /\ ret' = FailureReturn
    /\ pc' = "returned"
    /\ UNCHANGED <<config, schedule_result>>

\* as if a call that ends with UNKNOWN returned what the call before it
\* had left behind
SolveUnknown_KeepsResult ==
    /\ pc = "configured"
    /\ ModelValid
    /\ status' = UNKNOWN
    /\ solver' = solver
    /\ ret' = ret
    /\ pc' = "returned"
    /\ UNCHANGED <<config, schedule_result>>

\* solve(): the time limit passes before the solver finds a solution
SolveUnknown ==
    /\ pc = "configured"
    /\ ModelValid
    /\ status' = UNKNOWN
    /\ solver' = None
    /\ ret' = FailureReturn
    /\ pc' = "returned"
    /\ UNCHANGED <<config, schedule_result>>

\* solve(): the solver rejects the model
SolveInvalid ==
    /\ pc = "configured"
    /\ ~ModelValid
    /\ status' = MODEL_INVALID
    /\ solver' = None
    /\ ret' = FailureReturn
    /\ pc' = "returned"
    /\ UNCHANGED <<config, schedule_result>>

\* the tuple that solve() has returned
ReturnedTuple ==
    <<ret.success, ret.schedule_df, ret.hours_worked, ret.free_weekends,
      ret.holiday_days>>

\* the number of names on the left of
\* success, schedule_df, hours_worked, free_weekends = model.solve()
UnpackTargets == 4

\* show_results_tab after model.solve() has returned: the returned tuple is
\* unpacked into UnpackTargets names and stored; when the unpacking raises,
\* the handler of Exception stores the failure record
StoreResult ==
    /\ pc = "returned"
    /\ IF Len(ReturnedTuple) = UnpackTargets
       THEN schedule_result' = Some(ReturnedTuple)
       ELSE schedule_result' = Some(<<FALSE, None, None, None>>)
    /\ pc' = "stored"
    /\ UNCHANGED <<config, status, solver, ret>>

Next ==
    \/ SetupModel
    \/ SolveSuccess
    \/ SolveInfeasible
    \/ SolveUnknown
    \/ SolveInvalid

Spec == Init /\ [][Next]_vars

NextLong ==
    \/ SetupModelLong
    \/ SolveSuccess
    \/ SolveInfeasible
    \/ SolveUnknown
    \/ SolveInvalid

SpecLong == Init /\ [][NextLong]_vars

NextMonth ==
    \/ SetupModelMonth
    \/ SolveSuccess
    \/ SolveInfeasible
    \/ SolveUnknown
    \/ SolveInvalid

SpecMonth == Init /\ [][NextMonth]_vars

NextRepeat ==
    \/ SetupModelRepeat
    \/ CallAgain
    \/ SolveSuccess
    \/ SolveInfeasible
    \/ SolveUnknown
    \/ SolveInvalid

SpecRepeat == Init /\ [][NextRepeat]_vars

NextView ==
    \/ SetupModel
    \/ SolveSuccess
    \/ SolveInfeasible
    \/ SolveUnknown
    \/ SolveInvalid
    \/ StoreResult

SpecView == Init /\ [][NextView]_vars

NextInvalidConfig ==
    \/ SetupModelInvalidConfig
    \/ SolveSuccess
    \/ SolveInfeasible
    \/ SolveUnknown
    \/ SolveInvalid

SpecInvalidConfig == Init /\ [][NextInvalidConfig]_vars

-----------------------------------------------------------------------------
(* Properties of the results of solve().                                   *)

\* solve() has returned True with a roster
Succeeded == pc = "returned" /\ ret.success

\* the solver's value of shifts[(e, d, s)] is 1
Assigned(e, d, s) == solver[1].shifts[<<e, d, s>>] = 1

\* the cells of row d of schedule_df
RosterCells(d) == ret.schedule_df[1][d].cells

\* the labels of a worked shift s
WorkLabels(s) == IF s = 0 THEN {"M", "M (S)"} ELSE {"P", "P (S)"}

\* the number of shifts employee e works on the days of the set days
Worked(e, days) ==
    Cardinality({c \in days \X all_shifts : Assigned(e, c[1], c[2])})

\* C1: in every successful result, each (day, shift) has exactly one assigned
\* employee, and exactly one column of the day's roster row carries a work
\* label of that shift
C1_ExactlyOnePerShift ==
    Succeeded =>
        \A d \in all_days, s \in all_shifts :
            /\ Cardinality({e \in all_employees : Assigned(e, d, s)}) = 1
            /\ Cardinality({c \in DOMAIN RosterCells(d) :
                               RosterCells(d)[c] \in WorkLabels(s)}) = 1

\* a three-day roster of three employees in which a nurse and a freelancer work
C1_Witness ==
    /\ Succeeded
    /\ num_days = 3
    /\ num_nurses + num_freelancers = 3
    /\ \E n \in all_nurses, f \in all_freelancers, d \in all_days :
          Assigned(n, d, 0) /\ Assigned(f, d, 1)

\* C2: in every successful result, no employee works the afternoon of a day d
\* and the morning of day d + 1, for 0 <= d < num_days - 1
C2_NoAfternoonThenMorning ==
    Succeeded =>
        \A e \in all_employees, d \in 0 .. (num_days - 2) :
            ~(Assigned(e, d, 1) /\ Assigned(e, d + 1, 0))

\* an employee works the afternoon of a day and works again the day after
C2_Witness ==
    /\ Succeeded
    /\ \E e \in all_employees, d \in 0 .. (num_days - 2) :
          Assigned(e, d, 1) /\ Assigned(e, d + 1, 1)

\* C3: in every successful result, every employee works at most one of the
\* two shifts of any day
C3_AtMostOneShiftPerDay ==
    Succeeded =>
        \A e \in all_employees, d \in all_days :
            ~(Assigned(e, d, 0) /\ Assigned(e, d, 1))

\* an employee works one shift on every day of the horizon
C3_Witness ==
    /\ Succeeded
    /\ \E e \in all_employees : \A d \in all_days : Worked(e, {d}) = 1

\* C4: in every successful result, a freelancer is assigned (d, s) only if
\* their availability map holds the key (d + 1, s) with a value other than 0
C4_FreelancerOnlyWhenAvailable ==
    Succeeded =>
        \A f \in all_freelancers, d \in all_days, s \in all_shifts :
            Assigned(num_nurses + f, d, s) =>
                /\ <<d + 1, shift_names[s + 1]>>
                       \in DOMAIN freelancer_availability[f]
                /\ freelancer_availability[f][<<d + 1, shift_names[s + 1]>>]
                       # 0

\* a freelancer whose map has a slot mapped to 0 and lacks another slot of
\* the horizon is assigned one of their available slots
C4_Witness ==
    /\ Succeeded
    /\ \E f \in all_freelancers :
          /\ \E k \in DOMAIN freelancer_availability[f] :
                freelancer_availability[f][k] = 0 /\ k[1] <= num_days
          /\ \E d \in all_days, s \in all_shifts :
                <<d + 1, shift_names[s + 1]>>
                    \notin DOMAIN freelancer_availability[f]
          /\ \E d \in all_days, s \in all_shifts :
                Assigned(num_nurses + f, d, s)

\* C5: in every successful result, no nurse is assigned a (day, shift) whose
\* preference entry has the value 2 (holiday)
C5_NoWorkOnHoliday ==
    Succeeded =>
        \A n \in all_nurses, d \in all_days, s \in all_shifts :
            (/\ <<d + 1, shift_names[s + 1]>> \in DOMAIN nurse_preferences[n]
             /\ nurse_preferences[n][<<d + 1, shift_names[s + 1]>>] = 2)
                => ~Assigned(n, d, s)

\* a nurse on holiday for one shift of a day works the other shift of that day
C5_Witness ==
    /\ Succeeded
    /\ \E n \in all_nurses, d \in all_days, s \in all_shifts :
          /\ <<d + 1, shift_names[s + 1]>> \in DOMAIN nurse_preferences[n]
          /\ nurse_preferences[n][<<d + 1, shift_names[s + 1]>>] = 2
          /\ Assigned(n, d, 1 - s)

\* C6: in every successful result, every employee works at most
\* max_consecutive_days shifts in every window of max_consecutive_days + 1
\* consecutive days that lies inside the horizon
C6_ConsecutiveDaysCap ==
    Succeeded =>
        \A e \in all_employees, d0 \in all_days :
            (d0 + max_consecutive_days <= num_days - 1) =>
                Worked(e, d0 .. (d0 + max_consecutive_days))
                    <= max_consecutive_days

\* an employee works max_consecutive_days shifts in a window inside the horizon
C6_Witness ==
    /\ Succeeded
    /\ \E e \in all_employees, d0 \in all_days :
          /\ d0 + max_consecutive_days <= num_days - 1
          /\ Worked(e, d0 .. (d0 + max_consecutive_days))
                = max_consecutive_days

\* C7: in every successful result, every employee works at most
\* min(floor(14 * r / (1 + r)), 13) shifts in every window of 14 consecutive
\* days with start day in [0, num_days - 14], r being work_rest_ratio
C7_WorkRestWindow ==
    Succeeded =>
        \A e \in all_employees, d0 \in 0 .. (num_days - 14) :
            LET floor == (14 * work_rest_ratio[1])
                            \div (work_rest_ratio[2] + work_rest_ratio[1])
            IN  Worked(e, d0 .. (d0 + 13))
                    <= (IF floor < 13 THEN floor ELSE 13)

\* with r = 3 an employee works exactly 10 shifts in a window of 14 days
C7_Witness ==
    /\ Succeeded
    /\ work_rest_ratio = <<3, 1>>
    /\ \E e \in all_employees, d0 \in 0 .. (num_days - 14) :
          Worked(e, d0 .. (d0 + 13)) = 10

\* the weekend pairs of the horizon on which nurse n works no shift
FreePairs(n) ==
    {d \in 0 .. (num_days - 2) :
        /\ Weekday(d + 1) = 5
        /\ Weekday(d + 2) = 6
        /\ Worked(n, {d, d + 1}) = 0}

\* C8: in every successful result over a horizon that has at least one
\* weekend pair, every nurse has at least min_free_weekends weekend pairs on
\* which they work neither the Saturday nor the Sunday
C8_MinFreeWeekends ==
    (Succeeded /\ Len(get_weekend_days) >= 1) =>
        \A n \in all_nurses :
            /\ Cardinality(FreePairs(n)) >= min_free_weekends
            /\ ret.free_weekends[1][n] >= min_free_weekends

\* the horizon has a weekend pair, min_free_weekends is positive, and the
\* nurse is off on a weekend that the other employees cover
C8_Witness ==
    /\ Succeeded
    /\ Len(get_weekend_days) >= 1
    /\ min_free_weekends >= 1
    /\ \E n \in all_nurses : Cardinality(FreePairs(n)) = min_free_weekends

\* C9: in every successful result, for every nurse n: shifts worked = regular
\* shifts + overtime shifts; every overtime-marked cell is a worked cell and
\* the overtime count is the number of overtime-marked cells; regular shifts
\* <= floor(max_nurse_hours[n] / 8), so regular hours <= max_nurse_hours[n];
\* overtime shifts <= max_overhours, so overtime hours <= 8 * max_overhours
C9_RegularOvertimeSplit ==
    Succeeded =>
        \A n \in all_nurses :
            LET v == solver[1]
                cells == {n} \X all_days \X all_shifts
                marked == {c \in cells : v.overhour_shifts[c] = 1}
            IN  /\ Worked(n, all_days)
                       = v.regular_hours[n] + v.overtime_hours[n]
                /\ \A c \in marked : v.shifts[c] = 1
                /\ v.overtime_hours[n] = Cardinality(marked)
                /\ v.regular_hours[n] <= max_nurse_hours[n] \div 8
                /\ ret.hours_worked[1].regular[n] = 8 * v.regular_hours[n]
                /\ ret.hours_worked[1].regular[n] <= max_nurse_hours[n]
                /\ v.overtime_hours[n] <= max_overhours
                /\ ret.hours_worked[1].overtime[n] = 8 * v.overtime_hours[n]
                /\ ret.hours_worked[1].overtime[n] <= 8 * max_overhours

\* a nurse works their full regular allowance and one overtime shift
C9_Witness ==
    /\ Succeeded
    /\ \E n \in all_nurses :
          /\ solver[1].overtime_hours[n] = 1
          /\ solver[1].regular_hours[n] = max_nurse_hours[n] \div 8
          /\ solver[1].regular_hours[n] >= 1

\* C10: every call of solve() that has returned ended in one outcome: success
\* with a roster and statistics exactly when the status is OPTIMAL or
\* FEASIBLE, failure with no roster and no statistics for INFEASIBLE,
\* MODEL_INVALID and UNKNOWN
C10_OneTerminalOutcome ==
    (pc = "returned") =>
        /\ status \in {OPTIMAL, FEASIBLE, INFEASIBLE, MODEL_INVALID, UNKNOWN}
        /\ ret.success <=> status \in {OPTIMAL, FEASIBLE}
        /\ ret.success =>
              /\ ret.schedule_df # None
              /\ ret.hours_worked # None
              /\ ret.free_weekends # None
              /\ ret.holiday_days # None
        /\ ~ret.success =>
              /\ ret.schedule_df = None
              /\ ret.hours_worked = None
              /\ ret.free_weekends = None
              /\ ret.holiday_days = None

\* a call that ended with FEASIBLE returned a roster
C10_Witness ==
    /\ pc = "returned"
    /\ status = FEASIBLE
    /\ ret.success
    /\ ret.schedule_df # None

\* the positions of the returned tuple after the success flag
ReturnedValues == {"schedule_df", "hours_worked", "free_weekends", "holiday_days"}

\* C11: on every non-successful outcome the value returned by solve() carries
\* the status and a reason: some position of the returned tuple holds a value
\* from which the caller can tell INFEASIBLE, MODEL_INVALID and UNKNOWN apart
C11_FailureCarriesReason ==
    (pc = "returned" /\ ~ret.success) =>
        \E k \in ReturnedValues : ret[k] # None

\* C12: a roster is returned as success only after a validation step: the step
\* that returns success starts from the position that follows the re-check of
\* the hard constraints on the extracted roster
C12_SuccessOnlyAfterValidation ==
    [][(pc' = "returned" /\ ret'.success) => pc = "validated"]_vars

\* the columns of the nurses in row d of the roster
NurseColumns(d) == {c \in DOMAIN RosterCells(d) : c[1] = "Infermiere"}

\* the columns of the freelancers in row d of the roster
FreelancerColumns(d) == DOMAIN RosterCells(d) \ NurseColumns(d)

LabelDays(n, labels) ==
    {d \in all_days : RosterCells(d)[<<"Infermiere", n + 1>>] \in labels}

\* the weekend pairs that the roster table shows: a Saturday row followed by
\* a Sunday row
RosterWeekends ==
    {d \in all_days :
        /\ d + 1 \in all_days
        /\ ret.schedule_df[1][d].Giorno = 5
        /\ ret.schedule_df[1][d + 1].Giorno = 6}

\* C14: in every successful result, for each nurse n, hours_worked[n] is 8
\* times the work cells of n's column, the overtime hours 8 times the
\* overtime-suffixed cells, the regular hours 8 times the unsuffixed work
\* cells, and free_weekends[n] the number of weekend pairs on which both of
\* n's cells are R or F
C14_AggregatesMatchRoster ==
    Succeeded =>
        \A n \in all_nurses :
            LET suffixed == LabelDays(n, {"M (S)", "P (S)"})
                unsuffixed == LabelDays(n, {"M", "P"})
                rest == LabelDays(n, {"R", "F"})
            IN  /\ ret.hours_worked[1].hours[n]
                       = 8 * Cardinality(suffixed \cup unsuffixed)
                /\ ret.hours_worked[1].overtime[n] = 8 * Cardinality(suffixed)
                /\ ret.hours_worked[1].regular[n] = 8 * Cardinality(unsuffixed)
                /\ ret.free_weekends[1][n]
                       = Cardinality({d \in RosterWeekends :
                                         d \in rest /\ d + 1 \in rest})

\* one nurse has an afternoon overtime cell and an unsuffixed work cell, and
\* a nurse has a free weekend
C14_Witness ==
    /\ Succeeded
    /\ \E n \in all_nurses :
          /\ LabelDays(n, {"P (S)"}) # {}
          /\ LabelDays(n, {"M", "P"}) # {}
    /\ \E n \in all_nurses : ret.free_weekends[1][n] >= 1

\* the configuration has a nurse and every preference value is 1, -1 or 2
ConfigurationValid ==
    /\ num_nurses >= 1
    /\ \A n \in DOMAIN nurse_preferences :
          \A k \in DOMAIN nurse_preferences[n] :
              nurse_preferences[n][k] \in {1, -1, 2}

\* C15: a configuration without a nurse, or with a preference value outside
\* {1, -1, 2}, is rejected before a model is built: it is never accepted by
\* setup_model and solved
C15_InvalidConfigurationRejected ==
    (pc \in {"configured", "returned"}) => ConfigurationValid

\* C16: the objective that solve() maximizes is the weighted sum of the
\* 30/40/30 profile: 3000 / PrefCells per wish or refusal, 40 per unit of
\* cost and 3000 / WeekendPairs per free weekend (the fairness term keeps
\* its 1000), and not that of the 30/35/25/10 profile
C16_FrozenWeightProfile ==
    Succeeded =>
        Objective(solver[1]) = WeightedSum(solver[1], 3000, 40, 3000, 1000)

\* the values that v gives to the variables of the hard constraints
HardPart(v) ==
    [shifts |-> v.shifts,
     overhour_shifts |-> v.overhour_shifts,
     regular_hours |-> v.regular_hours,
     overtime_hours |-> v.overtime_hours,
     weekend_is_free |-> v.weekend_is_free]

\* C18: the assignments accepted as feasible do not depend on the objective:
\* every assignment that satisfies the hard constraints is the hard part of
\* a solution of the built model, whose shift-difference variables (domain
\* [-num_days, num_days]) and squares (domain [0, num_days^2]) exclude none
C18_ObjectiveExcludesNothing ==
    (pc = "configured") =>
        HardSolutions \subseteq {HardPart(v) : v \in Solutions}

\* a model with two freelancers that has a solution in which the square of
\* the difference of their shift counts exceeds num_days
C18_Witness ==
    /\ pc = "configured"
    /\ num_freelancers > 1
    /\ \E v \in Solutions : \E p \in FreelancerPairs :
          v.shift_diff_sq[p] > num_days

\* C19: when the horizon has no weekend pair the minimum of free weekends is
\* not imposed: whatever min_free_weekends is, no assignment of the shifts is
\* excluded on account of a nurse's weekends, and every nurse's reported
\* free_weekends is 0
C19_NoWeekendPairNoMinimum ==
    (Len(get_weekend_days) = 0) =>
        /\ (pc = "configured") =>
              \A a \in AssignFrom(<<>>, <<>>, 0), n \in all_nurses :
                  WeekendValues(a[1], n) = {<<>>}
        /\ Succeeded => \A n \in all_nurses : ret.free_weekends[1][n] = 0

\* a roster is returned for a horizon without a weekend pair although
\* min_free_weekends is positive
C19_Witness ==
    /\ Succeeded
    /\ Len(get_weekend_days) = 0
    /\ min_free_weekends >= 1
    /\ num_days = 3
    /\ \E n \in all_nurses : ret.free_weekends[1][n] = 0

\* C20: in every successful result, FEASIBLE as well as OPTIMAL, a nurse has
\* overtime shifts only beyond the regular cap: overtime_hours[n] =
\* max(0, shifts worked - floor(max_nurse_hours[n] / 8))
C20_OvertimeOnlyBeyondCap ==
    Succeeded =>
        \A n \in all_nurses :
            LET beyond == Worked(n, all_days) - (max_nurse_hours[n] \div 8)
            IN  solver[1].overtime_hours[n]
                    = (IF beyond > 0 THEN beyond ELSE 0)

\* C21: in every solution of the built model, for every nurse n and weekend
\* pair w, weekend_is_free[n][w] is 1 if and only if n works no shift on the
\* Saturday and none on the Sunday of w; the free_weekends count that solve()
\* recomputes from the assignment equals the sum of the indicators
C21_WeekendIndicatorExact ==
    /\ (pc = "configured") =>
          \A v \in Solutions, n \in all_nurses,
             w \in 1 .. Len(get_weekend_days) :
              (v.weekend_is_free[n][w] = 1)
                  <=> \A d \in {get_weekend_days[w][1], get_weekend_days[w][2]},
                         s \in all_shifts : v.shifts[<<n, d, s>>] = 0
    /\ Succeeded =>
          \A n \in all_nurses :
              /\ \A w \in 1 .. Len(get_weekend_days) :
                    (solver[1].weekend_is_free[n][w] = 1)
                        <=> Worked(n, {get_weekend_days[w][1],
                                       get_weekend_days[w][2]}) = 0
              /\ ret.free_weekends[1][n]
                     = SumSeq(solver[1].weekend_is_free[n])

\* a roster over a weekend pair on which one nurse is free and another nurse
\* works
C21_Witness ==
    /\ Succeeded
    /\ Len(get_weekend_days) >= 1
    /\ \E n1 \in all_nurses, n2 \in all_nurses :
          /\ solver[1].weekend_is_free[n1][1] = 1
          /\ solver[1].weekend_is_free[n2][1] = 0
          /\ ret.free_weekends[1][n1] = 1
          /\ ret.free_weekends[1][n2] = 0

\* C22: for every month, get_weekend_days returns exactly the pairs
\* (d, d + 1) of 0-based day indices with 0 <= d and d + 1 < num_days such
\* that day d is a Saturday and day d + 1 a Sunday, in ascending order; a
\* Saturday on the last day and a Sunday on the first day give no pair
C22_WeekendPairsExact ==
    (pc = "configured") =>
        LET pairs == get_weekend_days
            saturdays == {d \in 0 .. (num_days - 2) :
                             (first_weekday + d) % 7 = 5}
        IN  /\ \A i \in 1 .. Len(pairs) :
                  /\ 0 <= pairs[i][1]
                  /\ pairs[i][2] = pairs[i][1] + 1
                  /\ pairs[i][2] < num_days
                  /\ (first_weekday + pairs[i][1]) % 7 = 5
                  /\ (first_weekday + pairs[i][2]) % 7 = 6
            /\ \A i \in 1 .. (Len(pairs) - 1) : pairs[i][1] < pairs[i + 1][1]
            /\ {pairs[i][1] : i \in 1 .. Len(pairs)} = saturdays
            /\ \A i \in 1 .. Len(pairs) :
                  pairs[i][1] # num_days - 1 /\ pairs[i][2] # 0

\* a month whose last day is a Saturday, with four weekend pairs before it
C22_Witness ==
    /\ pc = "configured"
    /\ num_days \in MonthDayCounts
    /\ (first_weekday + num_days - 1) % 7 = 5
    /\ Len(get_weekend_days) = 4

\* the preferences of nurse n mark shift s of day d (0-based) as a holiday
MarkedHoliday(n, d, s) ==
    /\ <<d + 1, s>> \in DOMAIN nurse_preferences[n]
    /\ nurse_preferences[n][<<d + 1, s>>] = 2

\* C23: in every successful result the cell of day d and employee e is: for a
\* nurse with the morning assigned M, or its overtime variant if that cell's
\* overtime flag is 1; with the afternoon assigned P, or its overtime
\* variant; with no shift F if (d, M) or (d, P) is a holiday in the nurse's
\* preferences, else R; for a freelancer M, P or R by the assigned shift
C23_LabelDerivation ==
    Succeeded =>
        \A d \in all_days :
            /\ \A n \in all_nurses :
                  LET label == RosterCells(d)[<<"Infermiere", n + 1>>]
                      flag(s) == solver[1].overhour_shifts[<<n, d, s>>] = 1
                  IN  /\ Assigned(n, d, 0) =>
                            label = (IF flag(0) THEN "M (S)" ELSE "M")
                      /\ (~Assigned(n, d, 0) /\ Assigned(n, d, 1)) =>
                            label = (IF flag(1) THEN "P (S)" ELSE "P")
                      /\ (~Assigned(n, d, 0) /\ ~Assigned(n, d, 1)) =>
                            label = (IF \/ MarkedHoliday(n, d, "M")
                                        \/ MarkedHoliday(n, d, "P")
                                     THEN "F" ELSE "R")
            /\ \A f \in all_freelancers :
                  LET label == RosterCells(d)[<<"Libero Professionista", f + 1>>]
                      e == num_nurses + f
                  IN  /\ Assigned(e, d, 0) => label = "M"
                      /\ (~Assigned(e, d, 0) /\ Assigned(e, d, 1)) => label = "P"
                      /\ (~Assigned(e, d, 0) /\ ~Assigned(e, d, 1)) => label = "R"

\* a roster in which a nurse rests on a day whose afternoon alone is a
\* holiday, a nurse has an overtime cell and a freelancer works
C23_Witness ==
    /\ Succeeded
    /\ \E n \in all_nurses, d \in all_days :
          /\ ~MarkedHoliday(n, d, "M")
          /\ MarkedHoliday(n, d, "P")
          /\ RosterCells(d)[<<"Infermiere", n + 1>>] = "F"
    /\ \E n \in all_nurses, d \in all_days, s \in all_shifts :
          Assigned(n, d, s) /\ solver[1].overhour_shifts[<<n, d, s>>] = 1
    /\ \E f \in all_freelancers, d \in all_days :
          RosterCells(d)[<<"Libero Professionista", f + 1>>] \in {"M", "P"}

\* the unordered pairs of freelancers
ContractorPairs ==
    {p \in (0 .. (num_freelancers - 1)) \X (0 .. (num_freelancers - 1)) :
        p[1] < p[2]}

\* the number of shifts that v assigns to freelancer f
ContractorShifts(v, f) ==
    Cardinality({c \in all_days \X all_shifts :
                    v.shifts[<<num_nurses + f, c[1], c[2]>>] = 1})

\* C24: the fairness term is part of the model if and only if there are at
\* least 2 freelancers; when present, for every unordered pair (i, j) of
\* freelancers diff_sq[i, j] equals (shifts[i] - shifts[j])^2 in every
\* solution and enters the objective as
\* -diff_sq[i, j] * 1000 / max(1, C(num_freelancers, 2) * num_days^2); with 0
\* or 1 freelancers the model has no such variable and no such term.  The
\* objective is compared after multiplication by the common denominator
\* 2 * PrefCells * WeekendCells * max(1, C(num_freelancers, 2) * num_days^2).
C24_FairnessTerm ==
    (pc = "configured") =>
        \A v \in Solutions :
            LET pairCount == (num_freelancers * (num_freelancers - 1)) \div 2
                divisor == IF pairCount * num_days * num_days >= 1
                           THEN pairCount * num_days * num_days ELSE 1
                a == max_nurse_pref
                w == max_free_weekends
                others == 2 * w * 3000 * PreferenceTerm(v)
                             - a * w * 35 * CostTerm2(v)
                             + 2 * a * 2500 * FreeWeekendTerm(v)
                squares == SumFn([p \in ContractorPairs |->
                                     (ContractorShifts(v, p[1])
                                         - ContractorShifts(v, p[2]))
                                     * (ContractorShifts(v, p[1])
                                         - ContractorShifts(v, p[2]))],
                                 ContractorPairs)
            IN  /\ (DOMAIN v.shift_diff_sq # {}) <=> (num_freelancers >= 2)
                /\ DOMAIN v.shift_diff_sq = ContractorPairs
                /\ DOMAIN v.shift_diff = ContractorPairs
                /\ \A p \in ContractorPairs :
                      v.shift_diff_sq[p]
                          = (ContractorShifts(v, p[1]) - ContractorShifts(v, p[2]))
                              * (ContractorShifts(v, p[1])
                                    - ContractorShifts(v, p[2]))
                /\ Objective(v) = divisor * others - 2 * a * w * 1000 * squares
                /\ (num_freelancers <= 1) => Objective(v) = others

\* a model with two freelancers has a solution in which the second works two
\* shifts more than the first
C24_Witness ==
    /\ pc = "configured"
    /\ num_freelancers = 2
    /\ \E v \in Solutions :
          /\ v.shift_diff[<<0, 1>>] = -2
          /\ v.shift_diff_sq[<<0, 1>>] = 4

\* the slots of the horizon for which freelancer f is available: the key is
\* present and its value is true
TrueSlots(f) ==
    {c \in all_days \X all_shifts :
        /\ <<c[1] + 1, shift_names[c[2] + 1]>> \in DOMAIN freelancer_availability[f]
        /\ freelancer_availability[f][<<c[1] + 1, shift_names[c[2] + 1]>>] = 1}

\* C25: in every successful result, for every freelancer f, the reported
\* availability utilization is the percentage of the shifts assigned to f in
\* the number of slots for which f is available (key present and value
\* true), and 0 when f has no available slot; it never exceeds 100 percent
C25_AvailabilityUtilization ==
    Succeeded =>
        \A f \in all_freelancers :
            LET usage == ret.hours_worked[1].freelancer_availability_usage[f]
                assigned == Worked(num_nurses + f, all_days)
                slots == Cardinality(TrueSlots(f))
            IN  /\ usage = (IF slots > 0 THEN RoundPercent(assigned, slots)
                            ELSE 0)
                /\ usage <= 1000

\* what a call of solve() on a newly configured object can end with, as
\* <<status, solver values, returned tuple>>
FreshOutcomes ==
    IF \E n \in all_nurses : max_nurse_hours[n] \div 8 < 0 \/ max_overhours < 0
    THEN {<<MODEL_INVALID, None, FailureReturn>>}
    ELSE LET sols == Solutions
         IN  {<<UNKNOWN, None, FailureReturn>>}
                 \cup (IF sols = {} THEN {<<INFEASIBLE, None, FailureReturn>>}
                       ELSE {})
                 \cup {<<FEASIBLE, Some(v), SuccessReturn(v)>> : v \in sols}
                 \cup {<<OPTIMAL, Some(v), SuccessReturn(v)>> :
                          v \in {u \in sols : \A t \in sols :
                                    Objective(t) <= Objective(u)}}

\* a call of solve() ends with the outcome o
SolveEndsWith(o) ==
    /\ status' = o[1]
    /\ solver' = o[2]
    /\ ret' = o[3]
    /\ SolveSuccess \/ SolveInfeasible \/ SolveUnknown \/ SolveInvalid

\* C26: solve() keeps no state between calls: a call leaves every
\* configuration field unchanged, and what a call can end with is what a call
\* on a newly configured object with the same fields can end with, whatever
\* an earlier call on the same object has left behind
C26_SolveStateless ==
    /\ [][/\ (pc' = "returned") => config' = config
          /\ (pc = "configured" /\ pc' = "returned") =>
                <<status', solver', ret'>> \in FreshOutcomes]_vars
    /\ []((pc = "configured") =>
              \A o \in FreshOutcomes : ENABLED SolveEndsWith(o))

\* solve() is called again on an object whose last call returned a roster
C26_Witness ==
    /\ pc = "configured"
    /\ status = FEASIBLE
    /\ ret.success
    /\ Cardinality(Solutions) > 1

\* the days of the horizon with at least one shift marked as a holiday of n
HolidayMarkedDays(n) ==
    {d \in all_days : MarkedHoliday(n, d, "M") \/ MarkedHoliday(n, d, "P")}

C28_SmallTeamNeverSucceeds ==
    (/\ num_nurses + num_freelancers < 3
     /\ num_days >= 28
     /\ max_consecutive_days \in 1 .. 6) =>
        /\ (pc = "configured") => Solutions = {}
        /\ (pc = "returned") =>
              /\ ~ret.success
              /\ status \in {INFEASIBLE, UNKNOWN, MODEL_INVALID}

\* solve() reports INFEASIBLE for two employees whose hours allow a shift on
\* every day of a month of 31 days and who need no free weekend
C28_Witness ==
    /\ pc = "returned"
    /\ status = INFEASIBLE
    /\ num_nurses + num_freelancers = 2
    /\ num_days = 31
    /\ max_consecutive_days = 6
    /\ min_free_weekends = 0
    /\ \A n \in all_nurses : max_nurse_hours[n] = 248

\* C29: when the horizon has at least one weekend pair, min_free_weekends
\* exceeds the number of weekend pairs and there is at least one nurse,
\* solve() never returns success: the built model has no solution and no
\* call returns a roster
C29_TooManyFreeWeekendsNeverSucceeds ==
    (/\ Len(get_weekend_days) >= 1
     /\ min_free_weekends > Len(get_weekend_days)
     /\ num_nurses >= 1) =>
        /\ (pc = "configured") => Solutions = {}
        /\ (pc = "returned") => ~ret.success /\ status \notin {OPTIMAL, FEASIBLE}

\* solve() reports INFEASIBLE for one nurse and two freelancers who are
\* always available, on a horizon with one weekend pair and
\* min_free_weekends = 2
C29_Witness ==
    /\ pc = "returned"
    /\ status = INFEASIBLE
    /\ Len(get_weekend_days) = 1
    /\ min_free_weekends = 2
    /\ num_nurses = 1
    /\ num_freelancers = 2
    /\ \A f \in all_freelancers, d \in all_days, s \in all_shifts :
          ~FreelancerUnavailable(f, d, s)

\* C30: whenever the generate button is pressed and model.solve() returns
\* success, show_results_tab stores a schedule_result whose success flag is
\* true together with the returned roster and statistics; the failure record
\* (False, None, None, None) is stored only when solve() reports failure
C30_SuccessIsStored ==
    (pc = "stored") =>
        /\ ret.success =>
              /\ schedule_result # None
              /\ schedule_result[1][1] = TRUE
              /\ schedule_result[1][2] = ret.schedule_df
              /\ schedule_result[1][3] = ret.hours_worked
              /\ schedule_result[1][4] = ret.free_weekends
        /\ (schedule_result = Some(<<FALSE, None, None, None>>)) => ~ret.success

====
